---- MODULE Spec2Model ----
(***************************************************************************)
(* Model of the psst logging facility: the Logger dispatcher of logger.ts  *)
(* (current variant and the superseded variant kept in src/src/logger.ts)  *)
(* and the daily rotating FileTarget and the LogManager of targets.ts.    *)
(***************************************************************************)
EXTENDS Integers, Sequences, FiniteSets, TLC

VARIABLES level, logTargets, call,
          legacyLevel, legacyTargets, legacyCall,
          platform, now, born, maxLogAgeInDays, initDate, fileName,
          dirents, content, issued, fds, sweep, unlinks, stderr,
          menu, callsLeft, advLeft,
          mgr, mgrOp

dispVars == <<level, logTargets, call>>
legacyVars == <<legacyLevel, legacyTargets, legacyCall>>
fileVars == <<platform, now, born, maxLogAgeInDays, initDate, fileName,
              dirents, content, issued, fds, sweep, unlinks, stderr,
              menu, callsLeft, advLeft>>
mgrVars == <<mgr, mgrOp>>
vars == <<level, logTargets, call, legacyLevel, legacyTargets, legacyCall,
          platform, now, born, maxLogAgeInDays, initDate, fileName,
          dirents, content, issued, fds, sweep, unlinks, stderr,
          menu, callsLeft, advLeft, mgr, mgrOp>>

----------------------------------------------------------------------------
(* contracts.ts: the LogLevel flags *)

Debug == 1
Info == 2
Warn == 4
Error == 8

Levels == {Debug, Info, Warn, Error}

\* every combination of the four flags, the empty one included
Masks == 0 .. 15

\* an omitted constructor argument
Undefined == -1

\* ToInt32 of a level operand: undefined converts to 0
ToInt32(x) == IF x = Undefined THEN 0 ELSE x

RECURSIVE BitAndNat(_, _)
BitAndNat(a, b) ==
    IF a = 0 \/ b = 0 THEN 0
    ELSE (a % 2) * (b % 2) + 2 * BitAndNat(a \div 2, b \div 2)

\* the & operator of the level tests
BitAnd(a, b) == BitAndNat(ToInt32(a), ToInt32(b))

RECURSIVE BitOrNat(_, _)
BitOrNat(a, b) ==
    IF a = 0 THEN b
    ELSE IF b = 0 THEN a
    ELSE (IF a % 2 = 1 \/ b % 2 = 1 THEN 1 ELSE 0)
         + 2 * BitOrNat(a \div 2, b \div 2)

\* LogLevel.Debug | LogLevel.Error | LogLevel.Info | LogLevel.Warn
AllLevels == BitOrNat(BitOrNat(BitOrNat(Debug, Error), Info), Warn)

----------------------------------------------------------------------------
(* the values a caller passes: a message and the extra values *)

StrVal(s) == [tag |-> "str", n |-> 0, s |-> s]
NumVal(n) == [tag |-> "num", n |-> n, s |-> ""]

\* the (message, values) pairs the callers pass
Payloads ==
    {[text |-> "debug msg", args |-> <<>>],
     [text |-> "fail", args |-> <<NumVal(42)>>]}

----------------------------------------------------------------------------
(* ILogTarget handles and what a target's log callback does when invoked *)

Sinks == {"s1", "s2", "s3"}

NoSink == "none"

\* "ok": returns; "throw": raises; "remove"/"add"/"readd": calls
\* Logger.remove / Logger.add / remove-then-add for sink karg, then returns
Kinds == {"ok", "throw", "remove", "add", "readd"}

IndexOfFrom(seq, x, i) ==
    LET hits == {j \in i .. Len(seq) : seq[j] = x}
    IN IF hits = {} THEN 0
       ELSE CHOOSE j \in hits : \A k \in hits : j <= k

\* Array.prototype.indexOf, 1-based, 0 when absent
IndexOf(seq, x) == IndexOfFrom(seq, x, 1)

\* Array.prototype.splice(i, 1)
Splice1(seq, i) == SubSeq(seq, 1, i - 1) \o SubSeq(seq, i + 1, Len(seq))

\* add without the indexOf test
AddTargetAlways(targets, target) == Append(targets, target)

\* Logger.add on the list
AddTarget(targets, target) ==
    IF IndexOf(targets, target) = 0 THEN Append(targets, target) ELSE targets

\* remove that drops the last element instead of the one found
RemoveTargetLast(targets, target) ==
    LET i == IndexOf(targets, target)
    IN IF i >= 1 THEN SubSeq(targets, 1, Len(targets) - 1) ELSE targets

\* Logger.remove on the list
RemoveTarget(targets, target) ==
    LET i == IndexOf(targets, target)
    IN IF i >= 1 THEN Splice1(targets, i) ELSE targets

\* the effect of one target.log callback on the registration list
Callback(targets, s, b) ==
    IF b.bad # s THEN targets
    ELSE CASE b.kind = "remove" -> RemoveTarget(targets, b.karg)
           [] b.kind = "add" -> AddTarget(targets, b.karg)
           [] b.kind = "readd" -> AddTarget(RemoveTarget(targets, b.karg), b.karg)
           [] OTHER -> targets

Delivery(s, lvl, text, args) ==
    [sink |-> s, level |-> lvl, text |-> text, args |-> args]

\* the for..of loop of writeTarget: the array iterator reads the live list
RECURSIVE FanOut(_, _, _, _, _, _, _)
FanOut(i, targets, delivered, lvl, text, args, b) ==
    IF i > Len(targets)
    THEN [targets |-> targets, delivered |-> delivered, raised |-> FALSE]
    ELSE LET s == targets[i]
             d == Append(delivered, Delivery(s, lvl, text, args))
         IN IF b.bad = s /\ b.kind = "throw"
            THEN [targets |-> targets, delivered |-> d, raised |-> TRUE]
            ELSE FanOut(i + 1, Callback(targets, s, b), d, lvl, text, args, b)

\* writeTarget without the length test
writeTargetSilent(targets, lvl, text, args, b) ==
    LET r == FanOut(1, targets, <<>>, lvl, text, args, b)
    IN [targets |-> r.targets, delivered |-> r.delivered, raised |-> r.raised,
        diag |-> 0]

\* Logger.writeTarget of the current variant
writeTarget(targets, lvl, text, args, b) ==
    LET r == FanOut(1, targets, <<>>, lvl, text, args, b)
    IN [targets |-> r.targets, delivered |-> r.delivered, raised |-> r.raised,
        diag |-> IF Len(targets) = 0 THEN 1 ELSE 0]

\* Logger.writeTarget of the superseded variant: no diagnostic
legacyWriteTarget(targets, lvl, text, args, b) ==
    LET r == FanOut(1, targets, <<>>, lvl, text, args, b)
    IN [targets |-> r.targets, delivered |-> r.delivered, raised |-> r.raised,
        diag |-> 0]

\* a level test against the wrong flag
GateWrongFlag(mask, targets, lvl, text, args, b) ==
    IF BitAnd(mask, Error) # 0
    THEN FanOut(1, targets, <<>>, lvl, text, args, b)
         @@ [diag |-> IF Len(targets) = 0 THEN 1 ELSE 0]
    ELSE [targets |-> targets, delivered |-> <<>>, raised |-> FALSE, diag |-> 0]

\* log / info / warn / error: the level test, then writeTarget
Gate(mask, targets, lvl, text, args, b) ==
    IF BitAnd(mask, lvl) # 0
    THEN writeTarget(targets, lvl, text, args, b)
    ELSE [targets |-> targets, delivered |-> <<>>, raised |-> FALSE, diag |-> 0]

legacyGate(mask, targets, lvl, text, args, b) ==
    IF BitAnd(mask, lvl) # 0
    THEN legacyWriteTarget(targets, lvl, text, args, b)
    ELSE [targets |-> targets, delivered |-> <<>>, raised |-> FALSE, diag |-> 0]

MethodOf(lvl) ==
    CASE lvl = Debug -> "log"
      [] lvl = Info -> "info"
      [] lvl = Warn -> "warn"
      [] lvl = Error -> "error"

Quiet == [bad |-> NoSink, kind |-> "ok", karg |-> NoSink]

\* the sink whose callback may do more than return; the handles are
\* interchangeable and it is registered at any position of the list
Custom == {"s1"}

\* one sink at most misbehaves in a call
Behaviours ==
    {Quiet}
    \cup {[bad |-> s, kind |-> "throw", karg |-> NoSink] : s \in Custom}
    \cup [bad : Custom, kind : {"remove", "add"}, karg : Sinks]
    \cup {[bad |-> s, kind |-> "readd", karg |-> s] : s \in Custom}

\* the record kept of the last operation on a Logger
CallRec(op, arg, sink, lvl, text, args, b, pre, preLevel, delivered, diag, raised) ==
    [op |-> op, arg |-> arg, sink |-> sink, lvl |-> lvl, text |-> text,
     args |-> args, beh |-> b, pre |-> pre, preLevel |-> preLevel,
     delivered |-> delivered, diag |-> diag, raised |-> raised]

----------------------------------------------------------------------------
(* Logger, current variant *)

\* constructor(level = Debug | Error | Info | Warn)
LoggerLevel(arg) == IF arg = Undefined THEN AllLevels ELSE arg

\* new Logger(arg)
LoggerNew(arg) ==
    /\ level = LoggerLevel(arg)
    /\ logTargets = <<>>
    /\ call = CallRec("ctor", arg, NoSink, 0, "", <<>>, Quiet, <<>>,
                      Undefined, <<>>, 0, FALSE)

setLogLevel(m) ==
    /\ level' = m
    /\ logTargets' = logTargets
    /\ call' = CallRec("setLogLevel", m, NoSink, 0, "", <<>>, Quiet,
                       logTargets, level, <<>>, 0, FALSE)
    /\ UNCHANGED <<legacyVars, fileVars, mgrVars>>

add(target) ==
    /\ logTargets' = AddTarget(logTargets, target)
    /\ level' = level
    /\ call' = CallRec("add", 0, target, 0, "", <<>>, Quiet,
                       logTargets, level, <<>>, 0, FALSE)
    /\ UNCHANGED <<legacyVars, fileVars, mgrVars>>

remove(target) ==
    /\ logTargets' = RemoveTarget(logTargets, target)
    /\ level' = level
    /\ call' = CallRec("remove", 0, target, 0, "", <<>>, Quiet,
                       logTargets, level, <<>>, 0, FALSE)
    /\ UNCHANGED <<legacyVars, fileVars, mgrVars>>

\* log, info, warn and error, selected by lvl
LogCall(lvl, text, args, b) ==
    LET r == Gate(level, logTargets, lvl, text, args, b)
    IN /\ logTargets' = r.targets
       /\ level' = level
       /\ call' = CallRec(MethodOf(lvl), 0, NoSink, lvl, text, args, b,
                          logTargets, level, r.delivered, r.diag, r.raised)
       /\ UNCHANGED <<legacyVars, fileVars, mgrVars>>

DispNext ==
    \/ \E m \in Masks : setLogLevel(m)
    \/ \E s \in Sinks : add(s)
    \/ \E s \in Sinks : remove(s)
    \/ \E lvl \in Levels, p \in Payloads, b \in Behaviours :
          LogCall(lvl, p.text, p.args, b)

----------------------------------------------------------------------------
(* Logger, superseded variant of src/src/logger.ts *)

\* the ConsoleTarget the constructor creates when no target was passed
ConsoleSink == "console"

NoDup(seq) == \A i, j \in 1 .. Len(seq) : i # j => seq[i] # seq[j]

\* the target arrays a caller passes to the constructor
TargetLists ==
    {t \in UNION {[1 .. k -> Sinks] : k \in 0 .. Cardinality(Sinks)} : NoDup(t)}

\* isNullOrUndefined(level) ? level : Debug | Error | Info | Warn
LegacyLoggerLevel(arg) == IF arg = Undefined THEN arg ELSE AllLevels

\* the constructor never copies targets; it registers a console target
\* only when the array is empty
LegacyLoggerTargets(targets) ==
    IF Len(targets) = 0 THEN <<ConsoleSink>> ELSE <<>>

LegacyWarning == "If no logger is specified we use console as target"

\* new Logger(arg, targets) of the superseded variant
LegacyLoggerNew(arg, targets) ==
    LET r == IF Len(targets) = 0
             THEN legacyGate(LegacyLoggerLevel(arg),
                             LegacyLoggerTargets(targets),
                             Warn, LegacyWarning, <<>>, Quiet)
             ELSE [targets |-> LegacyLoggerTargets(targets),
                   delivered |-> <<>>, raised |-> FALSE, diag |-> 0]
    IN /\ legacyLevel = LegacyLoggerLevel(arg)
       /\ legacyTargets = r.targets
       /\ legacyCall = CallRec("ctor", arg, NoSink, Warn, LegacyWarning,
                               <<>>, Quiet, targets, Undefined,
                               r.delivered, r.diag, r.raised)

\* log, info, warn and error of the superseded variant
LegacyLogCall(lvl, text, args) ==
    LET r == legacyGate(legacyLevel, legacyTargets, lvl, text, args, Quiet)
    IN /\ legacyTargets' = r.targets
       /\ legacyLevel' = legacyLevel
       /\ legacyCall' = CallRec(MethodOf(lvl), 0, NoSink, lvl, text, args,
                                Quiet, legacyTargets, legacyLevel,
                                r.delivered, r.diag, r.raised)
       /\ UNCHANGED <<dispVars, fileVars, mgrVars>>

LegacyNext ==
    \E lvl \in Levels, p \in Payloads : LegacyLogCall(lvl, p.text, p.args)

----------------------------------------------------------------------------
(* time, the calendar and moment's formatting and parsing *)

\* clock ticks per calendar day; tick 0 of a day is local midnight
TicksPerDay == 2

\* day 0 of the clock is Friday 2019-12-20
Epoch == [y |-> 2019, m |-> 12, d |-> 20, dow |-> 5]

DayNumber(t) == t \div TicksPerDay

\* moment#day(): the day of the week, 0 (Sunday) .. 6
day(t) == (DayNumber(t) + Epoch.dow) % 7

IsLeap(y) == (y % 4 = 0 /\ y % 100 # 0) \/ y % 400 = 0

DaysInMonth(y, m) ==
    CASE m \in {4, 6, 9, 11} -> 30
      [] m = 2 -> IF IsLeap(y) THEN 29 ELSE 28
      [] OTHER -> 31

NextDate(c) ==
    IF c.d < DaysInMonth(c.y, c.m) THEN [y |-> c.y, m |-> c.m, d |-> c.d + 1]
    ELSE IF c.m < 12 THEN [y |-> c.y, m |-> c.m + 1, d |-> 1]
    ELSE [y |-> c.y + 1, m |-> 1, d |-> 1]

\* the calendar date of clock day n
RECURSIVE CivilOf(_)
CivilOf(n) ==
    IF n <= 0 THEN [y |-> Epoch.y, m |-> Epoch.m, d |-> Epoch.d]
    ELSE NextDate(CivilOf(n - 1))

Digit == <<"0", "1", "2", "3", "4", "5", "6", "7", "8", "9">>

Pad2(n) == <<Digit[((n \div 10) % 10) + 1], Digit[(n % 10) + 1]>>

Pad3(n) == <<Digit[((n \div 100) % 10) + 1]>> \o Pad2(n)

Pad4(n) == <<Digit[((n \div 1000) % 10) + 1]>> \o Pad3(n)

\* format("YYYY-MM-DD"), as a sequence of characters
FormatDate(t) ==
    LET c == CivilOf(DayNumber(t))
    IN Pad4(c.y) \o <<"-">> \o Pad2(c.m) \o <<"-">> \o Pad2(c.d)

\* the characters of a name as one string
RECURSIVE Str(_)
Str(chars) == IF chars = <<>> THEN "" ELSE Head(chars) \o Str(Tail(chars))

MsOfDay(t) == ((t % TicksPerDay) * 86400000) \div TicksPerDay

\* hh: the hour on the 12-hour clock, no am/pm marker in the format
Hour12(t) ==
    LET h == MsOfDay(t) \div 3600000
    IN IF h % 12 = 0 THEN 12 ELSE h % 12

\* format("YYYY-MM-DD hh:mm:ss.SSS Z"), in a zone at offset +00:00
FormatTime(t) ==
    Str(FormatDate(t)) \o " "
    \o Str(Pad2(Hour12(t))) \o ":"
    \o Str(Pad2((MsOfDay(t) \div 60000) % 60)) \o ":"
    \o Str(Pad2((MsOfDay(t) \div 1000) % 60)) \o "."
    \o Str(Pad3(MsOfDay(t) % 1000)) \o " +00:00"

DigitValue(ch) ==
    IF \E i \in 1 .. 10 : Digit[i] = ch
    THEN (CHOOSE i \in 1 .. 10 : Digit[i] = ch) - 1
    ELSE -1

RECURSIVE Number(_)
Number(chars) ==
    IF chars = <<>> THEN 0
    ELSE Number(SubSeq(chars, 1, Len(chars) - 1)) * 10
         + DigitValue(chars[Len(chars)])

\* days since 1970-01-01 of a calendar date
DaysFromCivil(y, m, d) ==
    LET yy == IF m <= 2 THEN y - 1 ELSE y
        era == yy \div 400
        yoe == yy - era * 400
        mp == IF m > 2 THEN m - 3 ELSE m + 9
        doy == (153 * mp + 2) \div 5 + d - 1
        doe == yoe * 365 + yoe \div 4 - yoe \div 100 + doy
    IN era * 146097 + doe - 719468

Invalid == -1000000

\* moment(string) for the leading characters of a file name: the local
\* midnight of an ISO date, Invalid for a string of that shape that is no
\* calendar date and for a string without digits, which Date rejects too
ParseDate(chars) ==
    IF /\ Len(chars) = 10
       /\ chars[5] = "-" /\ chars[8] = "-"
       /\ \A i \in {1, 2, 3, 4, 6, 7, 9, 10} : DigitValue(chars[i]) >= 0
    THEN LET y == Number(SubSeq(chars, 1, 4))
             m == Number(SubSeq(chars, 6, 7))
             d == Number(SubSeq(chars, 9, 10))
         IN IF m >= 1 /\ m <= 12 /\ d >= 1 /\ d <= DaysInMonth(y, m)
            THEN (DaysFromCivil(y, m, d)
                  - DaysFromCivil(Epoch.y, Epoch.m, Epoch.d)) * TicksPerDay
            ELSE Invalid
    ELSE Invalid

\* a comparison that takes an invalid moment for its number
isBeforeUnchecked(a, b) == a < b

\* moment#isBefore: false when either side is invalid
isBefore(a, b) == a # Invalid /\ b # Invalid /\ a < b

\* moment#subtract(n, "days")
SubtractDays(t, n) == t - n * TicksPerDay

----------------------------------------------------------------------------
(* FileTarget of targets.ts *)

LogPath == <<"l", "o", "g", "s">>

Separator == <<"\\">>

Suffix == <<".", "l", "o", "g">>

\* `${logPath}\\${date}.log`
PathOf(t) == LogPath \o Separator \o FormatDate(t) \o Suffix

\* `${logPath}\\${file}`
FilePath(file) == LogPath \o Separator \o file

\* the entry of logPath that a path built by FilePath or PathOf names,
\* the backslash separating the components of a path
EntryOf(path) == SubSeq(path, Len(LogPath) + Len(Separator) + 1, Len(path))

\* String.prototype.endsWith
EndsWith(chars, suffix) ==
    /\ Len(chars) >= Len(suffix)
    /\ SubSeq(chars, Len(chars) - Len(suffix) + 1, Len(chars)) = suffix

\* String.prototype.substr(0, n)
Substr0(chars, n) == SubSeq(chars, 1, IF Len(chars) < n THEN Len(chars) ELSE n)

DateFormatLength == Len(<<"Y", "Y", "Y", "Y", "-", "M", "M", "-", "D", "D">>)

\* process.platform == "win32" ? "\r\n" : "\n"
NewLine(p) == IF p = "win32" THEN "\r\n" ELSE "\n"

RECURSIVE NumToStr(_)
NumToStr(n) ==
    IF n < 10 THEN Digit[n + 1]
    ELSE NumToStr(n \div 10) \o Digit[(n % 10) + 1]

\* the string a value contributes to Array.prototype.join
ValueToStr(v) == IF v.tag = "num" THEN NumToStr(v.n) ELSE v.s

\* args.join("")
RECURSIVE JoinArgs(_)
JoinArgs(args) ==
    IF args = <<>> THEN "" ELSE ValueToStr(Head(args)) \o JoinArgs(Tail(args))

\* level.toString() of the numeric enum
LevelToString(lvl) == NumToStr(lvl)

\* the record FileTarget.log builds
FormatRecord(t, lvl, text, args, newLine) ==
    IF Len(args) > 0
    THEN FormatTime(t) \o "\t" \o LevelToString(lvl) \o "\t" \o text
         \o "\t" \o JoinArgs(args) \o newLine
    ELSE FormatTime(t) \o "\t" \o LevelToString(lvl) \o "\t" \o text \o newLine

\* a rotation that renames the file and keeps the stored moment
updateFileNameOnly(t, stored, name) ==
    IF day(t) # day(stored) \/ Len(name) = 0
    THEN [initDate |-> stored, fileName |-> PathOf(t)]
    ELSE [initDate |-> stored, fileName |-> name]

\* updateFileName: the stored moment and the file name after the call
updateFileName(t, stored, name) ==
    IF day(t) # day(stored) \/ Len(name) = 0
    THEN [initDate |-> t, fileName |-> PathOf(t)]
    ELSE [initDate |-> stored, fileName |-> name]

\* a sweep that ignores the threshold
ExpiredAnyDate(file, threshold) ==
    /\ EndsWith(file, Suffix)
    /\ ParseDate(Substr0(file, DateFormatLength)) # Invalid

\* cleanupOldLogFile: whether unlink is called for the entry
Expired(file, threshold) ==
    /\ EndsWith(file, Suffix)
    /\ isBefore(ParseDate(Substr0(file, DateFormatLength)), threshold)

\* the log calls a FileTarget receives
FileCalls ==
    {[lvl |-> Error, text |-> "boom", args |-> <<StrVal("x"), NumVal(1)>>],
     [lvl |-> Debug, text |-> "debug msg", args |-> <<>>]}

MaxCalls == 2

MaxAdvances == 2

MaxEntries == 2

\* the clock days on which the sink is constructed: 2020-01-01
BuildDays == {12}

Retentions == {0, 1, 10}

\* ages, in days before the construction day, of the dated files found
Ages == {0, 1, 9, 10, 11}

DatedFile(t) == FormatDate(t) \o Suffix

OtherEntries ==
    {<<"n", "o", "t", "e", "s", ".", "t", "x", "t">>,
     <<"2", "0", "1", "9", "-", "1", "3", "-", "4", "5">> \o Suffix,
     <<"2", "0", "1", "9", "-", "1", "2", "-", "2", "1", ".", "t", "x", "t">>,
     <<"a", "p", "p">> \o Suffix}

NoErrors == [open |-> 0, write |-> 0, readdir |-> 0, unlink |-> 0]

\* new FileTarget(logPath, maxLogAgeDays) at time t, the directory
\* holding the entries names: updateFileName(), then cleanupOldFiles()
\* up to its fs.readdir call
FileTargetNew(p, t, days, names, todo, calls, advances) ==
    LET u == updateFileName(t, t, <<>>)
        ino == CHOOSE f \in [names -> 1 .. Cardinality(names)] :
                  \A a, b \in names : a # b => f[a] # f[b]
    IN /\ platform = p
       /\ now = t
       /\ born = t
       /\ maxLogAgeInDays = days
       /\ initDate = u.initDate
       /\ fileName = u.fileName
       /\ dirents = ino
       /\ content = [i \in 1 .. Cardinality(names) |-> <<>>]
       /\ issued = <<>>
       /\ fds = {}
       /\ sweep = [state |-> "listing", threshold |-> SubtractDays(t, days),
                   listing |-> {}]
       /\ unlinks = [n \in {} |-> "pending"]
       /\ stderr = NoErrors
       /\ menu = todo
       /\ callsLeft = calls
       /\ advLeft = advances

\* FileTarget.log up to its fs.open call
FileLog(c) ==
    /\ callsLeft > 0
    /\ c \in menu
    /\ LET u == updateFileName(now, initDate, fileName)
       IN /\ initDate' = u.initDate
          /\ fileName' = u.fileName
          /\ issued' = Append(issued,
                [ts |-> now, path |-> u.fileName,
                 data |-> FormatRecord(now, c.lvl, c.text, c.args,
                                       NewLine(platform)),
                 lvl |-> c.lvl, text |-> c.text, args |-> c.args,
                 state |-> "opening", ino |-> 0])
    /\ callsLeft' = callsLeft - 1
    /\ UNCHANGED <<platform, now, born, maxLogAgeInDays, dirents, content,
                   fds, sweep, unlinks, stderr, menu, advLeft>>
    /\ UNCHANGED <<dispVars, legacyVars, mgrVars>>

\* an open that reads the file name when the callback runs
OpenDoneCurrentName(i, ok) ==
    /\ i \in 1 .. Len(issued)
    /\ issued[i].state = "opening"
    /\ LET name == EntryOf(fileName)
       IN IF ~ok
          THEN /\ stderr' = [stderr EXCEPT !.open = @ + 1]
               /\ issued' = [issued EXCEPT ![i].state = "openFailed"]
               /\ UNCHANGED <<dirents, content, fds>>
          ELSE IF name \in DOMAIN dirents
          THEN /\ issued' = [issued EXCEPT ![i].state = "appending",
                                           ![i].ino = dirents[name]]
               /\ fds' = fds \cup {i}
               /\ UNCHANGED <<dirents, content, stderr>>
          ELSE /\ fds' = fds \cup {i}
               /\ content' = Append(content, <<>>)
               /\ dirents' = [n \in DOMAIN dirents \cup {name} |->
                                 IF n = name THEN Len(content) + 1
                                 ELSE dirents[n]]
               /\ issued' = [issued EXCEPT ![i].state = "appending",
                                           ![i].ino = Len(content) + 1]
               /\ UNCHANGED stderr
    /\ UNCHANGED <<platform, now, born, maxLogAgeInDays, initDate, fileName,
                   sweep, unlinks, menu, callsLeft, advLeft>>
    /\ UNCHANGED <<dispVars, legacyVars, mgrVars>>

\* the callback of fs.open(fileName, 'a', ...) of the i-th log call
OpenDone(i, ok) ==
    /\ i \in 1 .. Len(issued)
    /\ issued[i].state = "opening"
    /\ LET name == EntryOf(issued[i].path)
       IN IF ~ok
          THEN /\ stderr' = [stderr EXCEPT !.open = @ + 1]
               /\ issued' = [issued EXCEPT ![i].state = "openFailed"]
               /\ UNCHANGED <<dirents, content, fds>>
          ELSE IF name \in DOMAIN dirents
          THEN /\ issued' = [issued EXCEPT ![i].state = "appending",
                                           ![i].ino = dirents[name]]
               /\ fds' = fds \cup {i}
               /\ UNCHANGED <<dirents, content, stderr>>
          ELSE /\ fds' = fds \cup {i}
               /\ content' = Append(content, <<>>)
               /\ dirents' = [n \in DOMAIN dirents \cup {name} |->
                                 IF n = name THEN Len(content) + 1
                                 ELSE dirents[n]]
               /\ issued' = [issued EXCEPT ![i].state = "appending",
                                           ![i].ino = Len(content) + 1]
               /\ UNCHANGED stderr
    /\ UNCHANGED <<platform, now, born, maxLogAgeInDays, initDate, fileName,
                   sweep, unlinks, menu, callsLeft, advLeft>>
    /\ UNCHANGED <<dispVars, legacyVars, mgrVars>>

AppendDoneSilent(i, ok) ==
    /\ i \in 1 .. Len(issued)
    /\ issued[i].state = "appending"
    /\ IF ok
       THEN /\ content' = [content EXCEPT ![issued[i].ino] =
                              Append(@, issued[i].data)]
            /\ issued' = [issued EXCEPT ![i].state = "written"]
            /\ UNCHANGED stderr
       ELSE /\ issued' = [issued EXCEPT ![i].state = "writeFailed"]
            /\ UNCHANGED <<content, stderr>>
    /\ UNCHANGED <<platform, now, born, maxLogAgeInDays, initDate, fileName,
                   dirents, fds, sweep, unlinks, menu, callsLeft, advLeft>>
    /\ UNCHANGED <<dispVars, legacyVars, mgrVars>>

\* the callback of fs.appendFile(fd, data, ...) of the i-th log call
AppendDone(i, ok) ==
    /\ i \in 1 .. Len(issued)
    /\ issued[i].state = "appending"
    /\ IF ok
       THEN /\ content' = [content EXCEPT ![issued[i].ino] =
                              Append(@, issued[i].data)]
            /\ issued' = [issued EXCEPT ![i].state = "written"]
            /\ UNCHANGED stderr
       ELSE /\ stderr' = [stderr EXCEPT !.write = @ + 1]
            /\ issued' = [issued EXCEPT ![i].state = "writeFailed"]
            /\ UNCHANGED content
    /\ UNCHANGED <<platform, now, born, maxLogAgeInDays, initDate, fileName,
                   dirents, fds, sweep, unlinks, menu, callsLeft, advLeft>>
    /\ UNCHANGED <<dispVars, legacyVars, mgrVars>>

\* a listing that is issued again when it fails
ReaddirDoneRetry(ok) ==
    /\ sweep.state = "listing"
    /\ IF ok
       THEN /\ sweep' = [sweep EXCEPT !.state = "listed",
                                      !.listing = DOMAIN dirents]
            /\ unlinks' = [n \in {f \in DOMAIN dirents :
                                     Expired(f, sweep.threshold)} |-> "pending"]
            /\ UNCHANGED stderr
       ELSE /\ stderr.readdir < 2
            /\ stderr' = [stderr EXCEPT !.readdir = @ + 1]
            /\ UNCHANGED <<sweep, unlinks>>
    /\ UNCHANGED <<platform, now, born, maxLogAgeInDays, initDate, fileName,
                   dirents, content, issued, fds, menu, callsLeft, advLeft>>
    /\ UNCHANGED <<dispVars, legacyVars, mgrVars>>

\* the callback of fs.readdir: cleanupOldLogFile for every entry listed
ReaddirDone(ok) ==
    /\ sweep.state = "listing"
    /\ IF ok
       THEN /\ sweep' = [sweep EXCEPT !.state = "listed",
                                      !.listing = DOMAIN dirents]
            /\ unlinks' = [n \in {f \in DOMAIN dirents :
                                     Expired(f, sweep.threshold)} |-> "pending"]
            /\ UNCHANGED stderr
       ELSE /\ sweep' = [sweep EXCEPT !.state = "listFailed"]
            /\ stderr' = [stderr EXCEPT !.readdir = @ + 1]
            /\ UNCHANGED unlinks
    /\ UNCHANGED <<platform, now, born, maxLogAgeInDays, initDate, fileName,
                   dirents, content, issued, fds, menu, callsLeft, advLeft>>
    /\ UNCHANGED <<dispVars, legacyVars, mgrVars>>

\* the callback of fs.unlink for the entry file
UnlinkDone(file, ok) ==
    /\ file \in DOMAIN unlinks
    /\ unlinks[file] = "pending"
    /\ IF ok /\ EntryOf(FilePath(file)) \in DOMAIN dirents
       THEN /\ dirents' = [n \in DOMAIN dirents \ {EntryOf(FilePath(file))} |->
                              dirents[n]]
            /\ unlinks' = [unlinks EXCEPT ![file] = "done"]
            /\ UNCHANGED stderr
       ELSE /\ unlinks' = [unlinks EXCEPT ![file] = "failed"]
            /\ stderr' = [stderr EXCEPT !.unlink = @ + 1]
            /\ UNCHANGED dirents
    /\ UNCHANGED <<platform, now, born, maxLogAgeInDays, initDate, fileName,
                   content, issued, fds, sweep, menu, callsLeft, advLeft>>
    /\ UNCHANGED <<dispVars, legacyVars, mgrVars>>

\* time passes: a tick, a day or a week
AdvanceClock(d) ==
    /\ advLeft > 0
    /\ now' = now + d
    /\ advLeft' = advLeft - 1
    /\ UNCHANGED <<platform, born, maxLogAgeInDays, initDate, fileName,
                   dirents, content, issued, fds, sweep, unlinks, stderr,
                   menu, callsLeft>>
    /\ UNCHANGED <<dispVars, legacyVars, mgrVars>>

FileNext ==
    \/ \E c \in FileCalls : FileLog(c)
    \/ \E i \in 1 .. MaxCalls, ok \in BOOLEAN : OpenDone(i, ok)
    \/ \E i \in 1 .. MaxCalls, ok \in BOOLEAN : AppendDone(i, ok)
    \/ \E ok \in BOOLEAN : ReaddirDone(ok)
    \/ \E file \in DOMAIN unlinks, ok \in BOOLEAN : UnlinkDone(file, ok)
    \/ \E d \in {1, TicksPerDay, 7 * TicksPerDay} : AdvanceClock(d)

BuildTimes == {d * TicksPerDay + tod : d \in BuildDays, tod \in 0 .. TicksPerDay - 1}

FirstBuildTime == CHOOSE t \in BuildTimes : \A u \in BuildTimes : t <= u

LastBuildTime == CHOOSE t \in BuildTimes : \A u \in BuildTimes : t >= u

Candidates(t) == {DatedFile(SubtractDays(t, a)) : a \in Ages} \cup OtherEntries

----------------------------------------------------------------------------
(* LogManager of targets.ts: the static singleLogger, consoleTarget and   *)
(* mapOfFileTargets.  Its Logger is the one implementing ILogger (the     *)
(* current variant); a target is the instance number of its construction  *)

\* how many targets of each kind a run constructs at most
MaxMade == 3

\* how many LogManager operations a run calls at most
MaxManagerCalls == 6

LogPaths == {"logs", "audit"}

NoTarget == <<"none", 0>>

NoLogger == 0

ManagerState(budget) ==
    [singleLogger |-> NoLogger,
     logTargets |-> <<>>,
     consoleTarget |-> NoTarget,
     mapOfFileTargets |-> [q \in {} |-> NoTarget],
     loggers |-> 0, consoles |-> 0, files |-> 0,
     left |-> budget]

\* the static initialisers of the class
ManagerNew(budget) ==
    /\ mgr = ManagerState(budget)
    /\ mgrOp = [op |-> "load", path |-> "", before |-> ManagerState(budget)]

createConsoleTarget(m) ==
    [m EXCEPT !.consoles = @ + 1, !.consoleTarget = <<"console", m.consoles + 1>>]

RECURSIVE getLogger(_), addConsoleTarget(_)

getLogger(m) ==
    IF m.singleLogger = NoLogger
    THEN addConsoleTarget([m EXCEPT !.loggers = @ + 1,
                                    !.singleLogger = m.loggers + 1,
                                    !.logTargets = <<>>])
    ELSE m

addConsoleTarget(m) ==
    LET m1 == IF m.consoleTarget = NoTarget THEN createConsoleTarget(m) ELSE m
        m2 == getLogger(m1)
    IN [m2 EXCEPT !.logTargets = AddTarget(@, m2.consoleTarget)]

removeConsoleTarget(m) ==
    IF m.consoleTarget # NoTarget
    THEN LET m1 == getLogger(m)
         IN [m1 EXCEPT !.logTargets = RemoveTarget(@, m.consoleTarget),
                       !.consoleTarget = NoTarget]
    ELSE m

\* new FileTarget(logPath, maxLogAgeDays): the construction that also
\* starts the retention sweep of that directory
createFileTarget(m, logPath, maxLogAgeDays) ==
    [m EXCEPT !.files = @ + 1]

addFileTargetAlways(m, logPath, maxLogAgeDays) ==
    LET m1 == createFileTarget(m, logPath, maxLogAgeDays)
        fileTarget == <<"file", m1.files>>
        m2 == [m1 EXCEPT !.mapOfFileTargets =
                  [q \in DOMAIN @ \cup {logPath} |->
                      IF q = logPath THEN fileTarget ELSE @[q]]]
        m3 == getLogger(m2)
    IN [m3 EXCEPT !.logTargets = AddTarget(@, fileTarget)]

addFileTarget(m, logPath, maxLogAgeDays) ==
    IF logPath \in DOMAIN m.mapOfFileTargets
    THEN m
    ELSE LET m1 == createFileTarget(m, logPath, maxLogAgeDays)
             fileTarget == <<"file", m1.files>>
             m2 == [m1 EXCEPT !.mapOfFileTargets =
                       [q \in DOMAIN @ \cup {logPath} |->
                           IF q = logPath THEN fileTarget ELSE @[q]]]
             m3 == getLogger(m2)
         IN [m3 EXCEPT !.logTargets = AddTarget(@, fileTarget)]

removeFileTarget(m, logPath) ==
    IF logPath \notin DOMAIN m.mapOfFileTargets
    THEN m
    ELSE LET fileTarget == m.mapOfFileTargets[logPath]
             m1 == [m EXCEPT !.mapOfFileTargets =
                       [q \in DOMAIN @ \ {logPath} |-> @[q]]]
             m2 == getLogger(m1)
         IN [m2 EXCEPT !.logTargets = RemoveTarget(@, fileTarget)]

\* one call of a LogManager operation by the application
ManagerCall(name, logPath, after) ==
    /\ mgr.left > 0
    /\ after.consoles <= MaxMade
    /\ after.files <= MaxMade
    /\ mgr' = [after EXCEPT !.left = @ - 1]
    /\ mgrOp' = [op |-> name, path |-> logPath, before |-> mgr]
    /\ UNCHANGED <<dispVars, legacyVars, fileVars>>

CallGetLogger == ManagerCall("getLogger", "", getLogger(mgr))

CallAddConsoleTarget == ManagerCall("addConsoleTarget", "", addConsoleTarget(mgr))

CallRemoveConsoleTarget ==
    ManagerCall("removeConsoleTarget", "", removeConsoleTarget(mgr))

CallAddFileTarget(logPath, maxLogAgeDays) ==
    ManagerCall("addFileTarget", logPath,
                addFileTarget(mgr, logPath, maxLogAgeDays))

CallRemoveFileTarget(logPath) ==
    ManagerCall("removeFileTarget", logPath, removeFileTarget(mgr, logPath))

ManagerNext ==
    \/ CallGetLogger
    \/ CallAddConsoleTarget
    \/ CallRemoveConsoleTarget
    \/ \E logPath \in LogPaths, maxLogAgeDays \in Retentions :
          CallAddFileTarget(logPath, maxLogAgeDays)
    \/ \E logPath \in LogPaths : CallRemoveFileTarget(logPath)

----------------------------------------------------------------------------
(* properties of the dispatcher *)

Range(seq) == {seq[i] : i \in 1 .. Len(seq)}

\* the flags a mask holds, read off its binary digits
MaskSet(m) == {l \in Levels : (m \div l) % 2 = 1}

LogOps == {"log", "info", "warn", "error"}

IsLogCall == call.op \in LogOps

CallEnabled == IsLogCall /\ call.lvl \in MaskSet(call.preLevel)

Count(seq, s) == Cardinality({i \in 1 .. Len(seq) : seq[i].sink = s})

\* C1: a call to the method of level L reaches the registered sinks iff L
\* is in the mask in force (set by the constructor or by setLogLevel);
\* when L is not in the mask no sink receives any call.
C1_LevelGate ==
    /\ call.op = "ctor" /\ call.arg # Undefined => MaskSet(level) = MaskSet(call.arg)
    /\ call.op = "setLogLevel" => MaskSet(level) = MaskSet(call.arg)
    /\ IsLogCall =>
          /\ call.op = MethodOf(call.lvl)
          /\ call.lvl \notin MaskSet(call.preLevel) => call.delivered = <<>>
          /\ call.lvl \in MaskSet(call.preLevel) /\ call.pre # <<>> =>
                /\ call.delivered # <<>>
                /\ call.delivered[1].sink = call.pre[1]
          /\ \A i \in 1 .. Len(call.delivered) :
                call.delivered[i].level = call.lvl

\* with mask Info|Error, error("fail", 42) gives exactly one sink call
C1_Witness ==
    /\ call.op = "error"
    /\ call.preLevel = BitOrNat(Info, Error)
    /\ call.text = "fail"
    /\ call.args = <<NumVal(42)>>
    /\ Len(call.pre) = 1
    /\ Len(call.delivered) = 1
    /\ call.delivered[1].args = <<NumVal(42)>>

\* C2: add is idempotent: the registration list never holds a handle
\* twice, adding a registered sink changes nothing, and a sink that is
\* registered receives one delivery per enabled call.
C2_AddIdempotent ==
    /\ NoDup(logTargets)
    /\ call.op = "add" =>
          /\ call.sink \in Range(logTargets)
          /\ call.sink \in Range(call.pre) => logTargets = call.pre
          /\ call.sink \notin Range(call.pre) =>
                logTargets = Append(call.pre, call.sink)
    /\ CallEnabled /\ Len(call.pre) = 1 =>
          Count(call.delivered, call.pre[1]) = 1
    /\ CallEnabled /\ call.beh = Quiet =>
          \A s \in Range(call.pre) : Count(call.delivered, s) = 1

\* the second add of a sink that is already registered
C2_Witness ==
    /\ call.op = "add"
    /\ call.sink \in Range(call.pre)
    /\ Len(logTargets) = 2

Without(seq, s) == SelectSeq(seq, LAMBDA x : x # s)

\* the sinks a callback registers during the call
AddedInCall ==
    IF call.beh.kind \in {"add", "readd"} THEN {call.beh.karg} ELSE {}

\* C3: after remove(s) the sink s receives nothing until it is added
\* again, the other sinks keep their relative order, and remove of an
\* unregistered sink changes neither the list nor the mask.
C3_Remove ==
    /\ call.op = "remove" =>
          /\ logTargets = Without(call.pre, call.sink)
          /\ call.sink \notin Range(logTargets)
          /\ call.sink \notin Range(call.pre) => logTargets = call.pre
          /\ level = call.preLevel
          /\ ~call.raised
    /\ IsLogCall =>
          \A i \in 1 .. Len(call.delivered) :
             call.delivered[i].sink \in Range(call.pre) \cup AddedInCall

\* the middle one of three registered sinks is removed
C3_Witness ==
    /\ call.op = "remove"
    /\ Len(call.pre) = 3
    /\ call.sink = call.pre[2]
    /\ logTargets = <<call.pre[1], call.pre[3]>>

\* C4: for an enabled call every sink registered at the time of the call
\* receives exactly one invocation with the call's level, message and
\* values, in registration order, before the call returns.
C4_EveryOnceInOrder ==
    CallEnabled =>
       /\ ~call.raised
       /\ SelectSeq(call.delivered, LAMBDA d : d.sink \in Range(call.pre)) =
             [i \in 1 .. Len(call.pre) |->
                 Delivery(call.pre[i], call.lvl, call.text, call.args)]

\* C5: a sink that raises neither stops the delivery to the sinks after
\* it nor makes log/info/warn/error raise; the failure is reported.
C5_FailureIsolated ==
    CallEnabled /\ call.beh.kind = "throw" /\ call.beh.bad \in Range(call.pre) =>
       /\ ~call.raised
       /\ \A s \in Range(call.pre) : Count(call.delivered, s) = 1

\* C6: an enabled call on an empty registration list emits exactly one
\* diagnostic, delivers nothing and returns; a disabled call emits no
\* diagnostic and has no effect at all.
C6_NoSinkDiagnostic ==
    IsLogCall =>
       /\ CallEnabled /\ call.pre = <<>> =>
             /\ call.diag = 1
             /\ call.delivered = <<>>
             /\ ~call.raised
             /\ logTargets = <<>>
       /\ CallEnabled /\ call.pre # <<>> => call.diag = 0
       /\ ~CallEnabled =>
             /\ call.diag = 0
             /\ call.delivered = <<>>
             /\ ~call.raised
             /\ logTargets = call.pre
             /\ level = call.preLevel

\* an enabled call made while no sink is registered
C6_Witness ==
    /\ CallEnabled
    /\ call.pre = <<>>
    /\ call.diag = 1

\* the levels a Logger answers to
Answers(mask) == {l \in Levels : BitAnd(mask, l) # 0}

\* what the constructor argument asks for
Asked(arg) == IF arg = Undefined THEN Levels ELSE MaskSet(arg)

\* C7: a Logger constructed without a mask has all four levels enabled
\* and one constructed with mask M has exactly M enabled, for every
\* Logger constructor of the repository.
C7_ConstructorMask ==
    /\ call.op = "ctor" => Answers(level) = Asked(call.arg)
    /\ legacyCall.op = "ctor" => Answers(legacyLevel) = Asked(legacyCall.arg)

\* C18: when a sink's callback calls remove (on itself or another sink)
\* or add during the fan-out of an enabled call, every sink registered
\* when the call started, other than the removed one, receives the
\* message exactly once, and no sink receives it twice.
C18_StableFanOut ==
    /\ CallEnabled
    /\ call.beh.kind \in {"remove", "add", "readd"}
    /\ call.beh.bad \in Range(call.pre)
    => /\ \A s \in Range(call.pre) :
             call.beh.kind = "add" \/ s # call.beh.karg =>
                Count(call.delivered, s) = 1
       /\ \A s \in Sinks : Count(call.delivered, s) <= 1

----------------------------------------------------------------------------
(* properties of the LogManager *)

\* the targets the LogManager holds: its console target, when set, and
\* the file targets of its map
Held(m) ==
    (IF m.consoleTarget # NoTarget THEN {m.consoleTarget} ELSE {})
    \cup {m.mapOfFileTargets[q] : q \in DOMAIN m.mapOfFileTargets}

\* C19: under any sequence of LogManager operations getLogger returns
\* one and the same Logger; once it exists its registered sinks are
\* exactly the console target, if set, and the file targets of the map,
\* each once; addFileTarget for a registered path constructs no
\* FileTarget and changes nothing.
C19_ManagerView ==
    /\ mgr.singleLogger = mgr.loggers /\ mgr.loggers <= 1
    /\ mgrOp.before.singleLogger # NoLogger =>
          mgr.singleLogger = mgrOp.before.singleLogger
    /\ mgrOp.op = "getLogger" => mgr.singleLogger # NoLogger
    /\ mgr.singleLogger = NoLogger => Held(mgr) = {}
    /\ mgr.singleLogger # NoLogger =>
          /\ Range(mgr.logTargets) = Held(mgr)
          /\ NoDup(mgr.logTargets)
          /\ Cardinality({t \in Range(mgr.logTargets) : t[1] = "console"}) <= 1
          /\ Cardinality({t \in Range(mgr.logTargets) : t[1] = "file"})
                = Cardinality(DOMAIN mgr.mapOfFileTargets)
    /\ /\ mgrOp.op = "addFileTarget"
       /\ mgrOp.path \in DOMAIN mgrOp.before.mapOfFileTargets
       => /\ mgr.files = mgrOp.before.files
          /\ mgr = [mgrOp.before EXCEPT !.left = @ - 1]

\* addFileTarget for a path that is registered, the console target and
\* the file targets of both paths being registered
C19_Witness ==
    /\ mgrOp.op = "addFileTarget"
    /\ mgrOp.path \in DOMAIN mgrOp.before.mapOfFileTargets
    /\ DOMAIN mgr.mapOfFileTargets = LogPaths
    /\ mgr.consoleTarget # NoTarget
    /\ Len(mgr.logTargets) = 3

\* C20: the Logger of src/src/logger.ts constructed with the target
\* array T registers the targets of T when T is not empty, and every
\* enabled call is delivered to each of them; constructed with an empty
\* T it registers one console target and delivers one warning about
\* the missing target to it during construction.
C20_LegacyTargets ==
    /\ legacyCall.op = "ctor" /\ legacyCall.pre # <<>> =>
          legacyTargets = legacyCall.pre
    /\ legacyCall.op = "ctor" /\ legacyCall.pre = <<>> =>
          /\ legacyTargets = <<ConsoleSink>>
          /\ legacyCall.delivered =
                <<Delivery(ConsoleSink, Warn, LegacyWarning, <<>>)>>
    /\ legacyCall.op \in LogOps /\ legacyCall.lvl \in Answers(legacyCall.preLevel) =>
          \A s \in Range(legacyTargets) : Count(legacyCall.delivered, s) = 1

----------------------------------------------------------------------------
(* properties of the FileTarget *)

\* C8: every record is written to the file named for the calendar date
\* of its own timestamp, so writes on one date share a file and writes
\* on different dates, any number of days apart, go to the files of
\* their respective dates.
C8_RecordInOwnDateFile ==
    \A i \in 1 .. Len(issued) :
       issued[i].path = LogPath \o Separator \o DatedFile(issued[i].ts)

\* the age in days, counted from the construction day, of a dated file
FileOfAge(a) == DatedFile(SubtractDays(born, a))

\* C9: once the directory is listed, unlink is called for every '.log'
\* entry dated more than retentionDays days before the construction day
\* (and the entry is gone when that unlink succeeds), and for no '.log'
\* entry dated fewer than retentionDays days before it.
C9_RetentionSweep ==
    /\ sweep.threshold = SubtractDays(born, maxLogAgeInDays)
    /\ sweep.state # "listed" => DOMAIN unlinks = {}
    /\ sweep.state = "listed" =>
          \A a \in Ages :
             /\ a > maxLogAgeInDays /\ FileOfAge(a) \in sweep.listing =>
                   /\ FileOfAge(a) \in DOMAIN unlinks
                   /\ unlinks[FileOfAge(a)] = "done" =>
                         FileOfAge(a) \notin DOMAIN dirents
             /\ a < maxLogAgeInDays =>
                   /\ FileOfAge(a) \notin DOMAIN unlinks
                   /\ FileOfAge(a) \in sweep.listing =>
                         FileOfAge(a) \in DOMAIN dirents

\* files dated today-1 and today-11, retention 10: only today-11 goes
C9_Witness ==
    /\ maxLogAgeInDays = 10
    /\ sweep.state = "listed"
    /\ sweep.listing = {FileOfAge(1), FileOfAge(11)}
    /\ DOMAIN unlinks = {FileOfAge(11)}
    /\ unlinks[FileOfAge(11)] = "done"
    /\ DOMAIN dirents = {FileOfAge(1)}

\* the name of a level
LevelName(lvl) ==
    CASE lvl = Debug -> "Debug"
      [] lvl = Info -> "Info"
      [] lvl = Warn -> "Warn"
      [] lvl = Error -> "Error"

\* C10: a record is the tab-separated timestamp, level name and message,
\* then, only when values were passed, a tab and the values concatenated
\* without separator, then one line terminator.
C10_RecordFormat ==
    \A i \in 1 .. Len(issued) :
       issued[i].data =
          FormatTime(issued[i].ts) \o "\t" \o LevelName(issued[i].lvl)
          \o "\t" \o issued[i].text
          \o (IF Len(issued[i].args) > 0
              THEN "\t" \o JoinArgs(issued[i].args) ELSE "")
          \o NewLine(platform)

\* the log calls whose write is in the state st
InState(st) == {i \in 1 .. Len(issued) : issued[i].state = st}

Finished == {"openFailed", "writeFailed", "written"}

\* what the failures so far have left behind: one report each, no
\* descriptor and no append after a failed open, and in every file
\* exactly the records whose append succeeded
C11_Contained ==
    /\ stderr.open = Cardinality(InState("openFailed"))
    /\ stderr.write = Cardinality(InState("writeFailed"))
    /\ \A i \in InState("opening") \cup InState("openFailed") :
          issued[i].ino = 0 /\ i \notin fds
    /\ \A k \in 1 .. Len(content) :
          Len(content[k]) =
             Cardinality({i \in InState("written") : issued[i].ino = k})

\* a log call returns with its open still outstanding and nothing
\* written or reported; a callback leaves the rotation state and the
\* calls still allowed alone; a finished write is never taken up again
C11_Step ==
    /\ Len(issued') > Len(issued) =>
          /\ issued'[Len(issued')].state = "opening"
          /\ stderr' = stderr /\ content' = content /\ dirents' = dirents
    /\ Len(issued') = Len(issued) =>
          initDate' = initDate /\ fileName' = fileName /\ callsLeft' = callsLeft
    /\ \A i \in 1 .. Len(issued) :
          issued[i].state \in Finished => issued'[i] = issued[i]

\* C11: log returns before its open and append complete; a failed open
\* is reported once on stderr and no append is attempted, a failed
\* append is reported once, nothing is retried, and neither failure
\* changes the stored date and file name or hinders later log calls.
C11_FireAndForget == C11_Contained /\ [][C11_Step /\ C11_Contained']_vars

\* the first call's open failed, the next call's record was written
C11_Witness ==
    /\ Len(issued) = 2
    /\ issued[1].state = "openFailed"
    /\ issued[2].state = "written"
    /\ stderr.open = 1

\* C12: every descriptor opened for a record is closed once the write
\* of that record has finished, whether the append succeeded or failed,
\* so once all writes have finished no descriptor is open.
C12_HandlesClosed ==
    \A i \in fds : issued[i].state \notin Finished

\* the file name spelt from the stored moment
C13_Derived ==
    fileName = LogPath \o Separator \o FormatDate(initDate) \o Suffix

\* the stored moment and the file name change together or not at all,
\* and a log call on the calendar date of the stored moment changes none
C13_Step ==
    /\ (initDate' # initDate) = (fileName' # fileName)
    /\ Len(issued') > Len(issued) /\ DayNumber(now) = DayNumber(initDate) =>
          initDate' = initDate /\ fileName' = fileName

\* C13: after construction and after any sequence of log calls the file
\* name is logPath, separator, the stored date as YYYY-MM-DD, ".log";
\* the stored date and the file name are only updated together and a
\* log call on the calendar date of the stored date changes neither.
C13_NameFollowsDate == []C13_Derived /\ [][C13_Step]_vars

\* a log call rotated the sink, a second one on that new date kept it
C13_Witness ==
    /\ Len(issued) = 2
    /\ DayNumber(issued[1].ts) # DayNumber(born)
    /\ DayNumber(issued[2].ts) = DayNumber(issued[1].ts)
    /\ issued[2].ts # issued[1].ts
    /\ initDate = issued[1].ts
    /\ fileName # LogPath \o Separator \o DatedFile(born)

\* the descriptor of every opened write is that of the entry its own
\* call named, and a written record is in that file
C14_Target ==
    \A i \in InState("appending") \cup InState("written")
             \cup InState("writeFailed") :
       /\ EntryOf(issued[i].path) \in DOMAIN dirents
       /\ dirents[EntryOf(issued[i].path)] = issued[i].ino
       /\ issued[i].state = "written" =>
             \E k \in 1 .. Len(content[issued[i].ino]) :
                content[issued[i].ino][k] = issued[i].data

\* a log call takes the file name in force when it returns and leaves
\* the earlier writes alone; no later step changes the path of a write
C14_Step ==
    /\ Len(issued') > Len(issued) =>
          /\ issued'[Len(issued')].path = fileName'
          /\ SubSeq(issued', 1, Len(issued)) = issued
    /\ Len(issued') = Len(issued) =>
          \A i \in 1 .. Len(issued) : issued'[i].path = issued[i].path

\* C14: however log calls, open and append completions and rotating log
\* calls interleave, each record is appended to the path in force at
\* its own log call: a rotation neither redirects a pending write to
\* the new file nor sends the rotating call's record to the old file.
C14_PathFixedAtCall == C14_Target /\ [][C14_Step /\ C14_Target']_vars

\* the first write is still pending on the old file while the record of
\* a later, rotating call is already in the new file
C14_Witness ==
    /\ Len(issued) = 2
    /\ issued[1].path # issued[2].path
    /\ issued[1].state = "appending"
    /\ issued[2].state = "written"
    /\ fileName = issued[2].path

\* how many days after the epoch of the model the directory may be dated
LastDay == 40

\* the YYYY-MM-DD spellings of the calendar dates of that period
DateTexts == {FormatDate(d * TicksPerDay) : d \in 0 .. LastDay}

\* an entry the sweep has to leave alone whatever its age
Malformed(n) ==
    \/ ~EndsWith(n, Suffix)
    \/ Substr0(n, DateFormatLength) \notin DateTexts

\* C15: the sweep calls unlink for no entry whose name does not end in
\* ".log" and for no ".log" entry whose leading ten characters are not
\* a date; these entries stay in the directory and the expired entries
\* listed with them are still unlinked.
C15_SkipsMalformed ==
    /\ \A n \in DOMAIN unlinks : ~Malformed(n)
    /\ \A n \in sweep.listing : Malformed(n) => n \in DOMAIN dirents
    /\ sweep.state = "listed" =>
          \A a \in Ages :
             a > maxLogAgeInDays /\ FileOfAge(a) \in sweep.listing =>
                FileOfAge(a) \in DOMAIN unlinks

\* a ".log" entry that is no date was listed next to an expired file:
\* the expired file is gone, the other entry is still there
C15_Witness ==
    /\ sweep.state = "listed"
    /\ \E n \in sweep.listing :
          /\ EndsWith(n, Suffix) /\ Malformed(n)
          /\ Len(n) > DateFormatLength
          /\ sweep.listing = {n, FileOfAge(11)}
          /\ DOMAIN dirents = {n}
    /\ DOMAIN unlinks = {FileOfAge(11)}
    /\ unlinks[FileOfAge(11)] = "done"

\* the reports and the unlink calls the sweep has made so far
C16_Reported ==
    /\ stderr.readdir = (IF sweep.state = "listFailed" THEN 1 ELSE 0)
    /\ sweep.state \in {"listing", "listFailed"} => DOMAIN unlinks = {}
    /\ stderr.unlink =
          Cardinality({n \in DOMAIN unlinks : unlinks[n] = "failed"})
    /\ sweep.state = "listed" =>
          \A a \in Ages :
             a > maxLogAgeInDays /\ FileOfAge(a) \in sweep.listing =>
                FileOfAge(a) \in DOMAIN unlinks

\* the directory is listed once and an unlink is issued once; a failed
\* listing removes nothing; the sweep leaves the log calls, the stored
\* date and the file name alone
C16_Step ==
    /\ sweep.state # "listing" =>
          sweep' = sweep /\ DOMAIN unlinks' = DOMAIN unlinks
    /\ sweep'.state = "listFailed" /\ sweep.state = "listing" =>
          dirents' = dirents
    /\ \A n \in DOMAIN unlinks :
          unlinks[n] # "pending" => unlinks'[n] = unlinks[n]
    /\ sweep' # sweep \/ unlinks' # unlinks =>
          /\ issued' = issued /\ callsLeft' = callsLeft
          /\ initDate' = initDate /\ fileName' = fileName

\* C16: the sweep runs once per construction: a failed listing is
\* reported, deletes nothing and is not retried; a failed unlink is
\* reported and the other expired entries are still unlinked; neither
\* failure affects construction or the log calls made afterwards.
C16_BestEffortSweep == []C16_Reported /\ [][C16_Step]_vars

\* of two expired entries one unlink failed and the other succeeded,
\* and the record of a log call was written all the same
C16_Witness ==
    /\ sweep.state = "listed"
    /\ sweep.listing = {FileOfAge(10), FileOfAge(11)}
    /\ DOMAIN unlinks = sweep.listing
    /\ unlinks[FileOfAge(10)] = "failed"
    /\ unlinks[FileOfAge(11)] = "done"
    /\ DOMAIN dirents \cap sweep.listing = {FileOfAge(10)}
    /\ stderr.unlink = 1
    /\ Len(issued) = 1 /\ issued[1].state = "written"

\* the listing failed, nothing was unlinked, a record was written
C16_ListingFailed ==
    /\ sweep.state = "listFailed"
    /\ FileOfAge(11) \in DOMAIN dirents
    /\ Len(issued) = 1 /\ issued[1].state = "written"

\* C17: for every retentionDays >= 0 the sweep started at construction
\* never calls unlink for the file named for the construction day, the
\* sink's active file, so a record written by a log call that races
\* with the pending sweep stays in a file of the directory.
C17_ActiveFileKept ==
    /\ FileOfAge(0) \notin DOMAIN unlinks
    /\ \A i \in InState("written") :
          /\ EntryOf(issued[i].path) \in DOMAIN dirents
          /\ dirents[EntryOf(issued[i].path)] = issued[i].ino

----------------------------------------------------------------------------
(* the specifications: each constructs the three objects and then runs   *)
(* the operations of one of them                                         *)

\* the dispatcher, constructed with any mask or none
LoggerInit ==
    \E arg \in Masks \cup {Undefined} :
        /\ LoggerNew(arg)
        /\ LegacyLoggerNew(Undefined, <<>>)
        /\ FileTargetNew("linux", FirstBuildTime, 10, {}, {}, 0, 0)
        /\ ManagerNew(0)

SpecLogger == LoggerInit /\ [][DispNext]_vars

\* the superseded dispatcher, constructed with any mask and target array
LegacyInit ==
    \E arg \in Masks \cup {Undefined}, targets \in TargetLists :
        /\ LegacyLoggerNew(arg, targets)
        /\ LoggerNew(Undefined)
        /\ FileTargetNew("linux", FirstBuildTime, 10, {}, {}, 0, 0)
        /\ ManagerNew(0)

SpecLegacy == LegacyInit /\ [][LegacyNext]_vars

\* a sink constructed in the last tick of a day that lives for days;
\* one expired file is in the directory
RotateInit ==
    \E c \in FileCalls :
        /\ Len(c.args) > 0
        /\ FileTargetNew("linux", LastBuildTime, 10,
                         {DatedFile(SubtractDays(LastBuildTime, 11))},
                         {c}, MaxCalls, MaxAdvances)
        /\ LoggerNew(Undefined)
        /\ LegacyLoggerNew(Undefined, <<>>)
        /\ ManagerNew(0)

SpecRotate == RotateInit /\ [][FileNext]_vars

\* a sink constructed over any small directory, with any retention
ConstructInit ==
    \E p \in {"win32", "linux"}, t \in BuildTimes, days \in Retentions :
        \E names \in SUBSET Candidates(t) :
            /\ Cardinality(names) <= MaxEntries
            /\ FileTargetNew(p, t, days, names, FileCalls, 1, 1)
            /\ LoggerNew(Undefined)
            /\ LegacyLoggerNew(Undefined, <<>>)
            /\ ManagerNew(0)

SpecConstruct == ConstructInit /\ [][FileNext]_vars

\* the class LogManager as loaded, and an application that calls it
ManagerInit ==
    /\ ManagerNew(MaxManagerCalls)
    /\ LoggerNew(Undefined)
    /\ LegacyLoggerNew(Undefined, <<>>)
    /\ FileTargetNew("linux", FirstBuildTime, 10, {}, {}, 0, 0)

SpecManager == ManagerInit /\ [][ManagerNext]_vars

====
